---- MODULE Spec2Model ----
(***************************************************************************)
(* A model of the gaze pipeline of virtual-desktop-controller:             *)
(*   - CalibrationManager (src/src/eyetracking/calibration.py)             *)
(*   - KalmanTracker      (src/src/eyetracking/kalman_tracker.py)          *)
(*                                                                         *)
(* Numbers.  The code computes in floating point.  The model computes the  *)
(* calibration exactly, in rationals:                                      *)
(*   - an iris coordinate is an integer and stands for itself;             *)
(*   - a screen coordinate s stands for s / ScreenScale, so the grid value *)
(*     0.5 is 5 and the clamp interval [0.0, 1.0] is [0, ScreenScale];     *)
(*     least squares is linear in the right-hand side, so the coefficient  *)
(*     vectors are in the same unit;                                       *)
(*   - a coefficient vector is <<n1, n2, n3, d>>, standing for             *)
(*     (n1/d, n2/d, n3/d), d > 0, in lowest terms;                         *)
(*   - a returned coordinate is a rational <<n, d>>, d > 0, lowest terms.  *)
(* Python's None is the empty tuple <<>>; `not iris_data` is true of it.   *)
(***************************************************************************)
EXTENDS Integers, Sequences, FiniteSets, TLC

VARIABLES
    \* CalibrationManager
    calibration_points,   \* list of samples [screen |-> <<sx,sy>>, iris |-> <<ix,iy>>]
    mapping_matrix_x,     \* None, or the x coefficient vector
    mapping_matrix_y,     \* None, or the y coefficient vector
    is_calibrated,        \* bool
    \* the last call on the CalibrationManager, its argument, what it returned,
    \* and whether the engine was fitted when it was made
    op, arg, ret, pre_calibrated,
    \* a calibration session on the standard grid: the affine map <<M, c>> from
    \* screen targets to iris observations, and the number of steps taken
    grid_map, grid_pc,
    \* KalmanTracker
    HAS_FILTERPY,         \* whether filterpy was importable: the strategy
    kf_x, kf_y,           \* None, or the axis filters [x |-> <<pos, vel>>, P |-> 2x2]
    initialized,          \* _initialized
    fallback_window,      \* _fallback_window: list of <<x, y>>
    \* the last call on the KalmanTracker, its argument and what it returned,
    \* and the number of valid updates made so far
    kt_op, kt_arg, kt_ret, kt_updates,
    \* since construction or the last reset(): the valid observations given to
    \* update, what update returned for each, and the number of
    \* predict-then-correct cycles run on each axis filter
    kt_history, kt_outputs, kt_cycles,
    \* GestureRecognizer: whether a landmarker was created, the timestamp given
    \* to the detector, and the two public attributes
    landmarker, timestamp_ms, current_gesture, confidence,
    \* the last call on the GestureRecognizer; if it ran _classify_gesture, the
    \* landmarks given to it, what it returned and the value of its local
    \* extended_fingers on return; if it was process_frame, the dictionary it
    \* returned
    g_op, g_arg, g_ret, g_extended, pf_ret,
    \* the first list of landmarks classified and what was returned for it, with
    \* whether another list has been classified since (kept where a
    \* specification says so)
    g_memo,
    \* the frame given to the last process_frame of the GestureRecognizer, and
    \* the timestamps it has given to detect_for_video since construction
    g_frame, g_detects,
    \* EyeTracker: whether a landmarker was created, the timestamp given to the
    \* detector and the public attribute current_gaze
    et_landmarker, et_timestamp_ms, current_gaze,
    \* the last call on the EyeTracker, the frame given to it and the dictionary
    \* it returned; the timestamps given to detect_for_video since construction
    et_op, et_frame, et_ret, et_detects,
    \* Camera: the attributes cap and thread (0 for None, else the number of
    \* the VideoCapture or Thread object), is_running, current_frame and the
    \* holder of lock
    cap, is_running, thread, current_frame, lock,
    \* the VideoCapture objects created so far ("opened" or "closed") and the
    \* capture threads started so far: where each is in _capture_loop, the
    \* frame it has read, and whether a stop() begun after its start has
    \* returned
    video_captures, capture_threads,
    \* the number of frames the device has delivered
    frames_read,
    \* the thread calling the Camera: where it is in stop or get_frame, the
    \* last call it completed and what get_frame returned; the image last
    \* stored in current_frame
    cam_pc, cam_op, cam_ret, last_stored

calVars == <<calibration_points, mapping_matrix_x, mapping_matrix_y, is_calibrated>>
obsVars == <<op, arg, ret, pre_calibrated>>
gridVars == <<grid_map, grid_pc>>
trackerVars == <<HAS_FILTERPY, kf_x, kf_y, initialized, fallback_window>>
ktObsVars == <<kt_op, kt_arg, kt_ret, kt_updates, kt_history, kt_outputs, kt_cycles>>
ktVars == <<trackerVars, ktObsVars>>
recognizerVars == <<landmarker, timestamp_ms, current_gesture, confidence>>
gObsVars == <<g_op, g_arg, g_ret, g_extended, pf_ret, g_memo, g_frame, g_detects>>
gestureVars == <<recognizerVars, gObsVars>>
eyeTrackerVars == <<et_landmarker, et_timestamp_ms, current_gaze>>
etObsVars == <<et_op, et_frame, et_ret, et_detects>>
eyeVars == <<eyeTrackerVars, etObsVars>>
cameraObjVars == <<cap, is_running, thread, current_frame, lock>>
cameraEnvVars == <<video_captures, capture_threads, frames_read>>
camObsVars == <<cam_pc, cam_op, cam_ret, last_stored>>
cameraVars == <<cameraObjVars, cameraEnvVars, camObsVars>>
vars == <<calVars, obsVars, gridVars, ktVars, gestureVars, eyeVars, cameraVars>>

None == <<>>

\* ------------------------------------------------------------------ bounds
MaxSamples == 5
MaxUpdates == 7
MaxPipelineFrames == 3
MaxStarts == 2
MaxImages == 2

ScreenScale == 10

\* ------------------------------------------------------------- arithmetic
Abs(n) == IF n < 0 THEN -n ELSE n

RECURSIVE GCD(_, _)
GCD(a, b) == IF b = 0 THEN Abs(a) ELSE GCD(Abs(b), Abs(a) % Abs(b))

\* the rational n/d (d # 0) in lowest terms with a positive denominator
Rat(n, d) ==
    LET g == GCD(n, d)
        s == IF d < 0 THEN -1 ELSE 1
    IN  <<(s * n) \div g, (s * d) \div g>>

\* the vector (v[1]/d, v[2]/d, v[3]/d), d # 0, as <<n1, n2, n3, d>> in lowest terms
RatVec(v, d) ==
    LET g == GCD(GCD(v[1], v[2]), GCD(v[3], d))
        s == IF d < 0 THEN -1 ELSE 1
    IN  <<(s * v[1]) \div g, (s * v[2]) \div g, (s * v[3]) \div g, (s * d) \div g>>

RECURSIVE SumTo(_, _)
SumTo(f, n) == IF n = 0 THEN 0 ELSE f[n] + SumTo(f, n - 1)

Dot3(u, v) == u[1] * v[1] + u[2] * v[2] + u[3] * v[3]

\* M v for a 3x3 matrix M (a tuple of rows)
MatVec(M, v) == <<Dot3(M[1], v), Dot3(M[2], v), Dot3(M[3], v)>>

\* ------------------------------------------------------- numpy.linalg.lstsq
(***************************************************************************)
(* np.linalg.lstsq(A, b, rcond=None): the least-squares solution of        *)
(* A x = b of minimum Euclidean norm, x = pinv(A) b = pinv(A^T A) A^T b,   *)
(* which exists for every finite A, whatever its rank; it raises           *)
(* LinAlgError only when the SVD does not converge.  A has the rows        *)
(* [ix, iy, 1], so its rank is 1, 2 or 3.  With N = A^T A (symmetric,      *)
(* positive semidefinite), c1 = trace N, c2 = the sum of the principal     *)
(* 2x2 minors of N and r = A^T b:                                          *)
(*   rank 3 (det N # 0):          x = adj(N) r / det N                     *)
(*   rank 2 (det N = 0, c2 # 0):  x = ((c1^2 - c2) N - c1 N^2) r / c2^2    *)
(*   rank 1 (c2 = 0):             x = N r / c1^2                           *)
(* The result is [raised, x, rank, residuals]; residuals is the length of  *)
(* the residual array: 1 when rank = 3 and A has more than 3 rows, else 0. *)
(***************************************************************************)
Gram(A) ==
    [i \in 1..3 |-> [j \in 1..3 |->
        SumTo([k \in 1..Len(A) |-> A[k][i] * A[k][j]], Len(A))]]

Moment(A, b) ==
    [i \in 1..3 |-> SumTo([k \in 1..Len(A) |-> A[k][i] * b[k]], Len(A))]

\* the adjugate of a symmetric 3x3 matrix
Adj(N) ==
    LET c11 == N[2][2] * N[3][3] - N[2][3] * N[2][3]
        c12 == N[1][3] * N[2][3] - N[1][2] * N[3][3]
        c13 == N[1][2] * N[2][3] - N[1][3] * N[2][2]
        c22 == N[1][1] * N[3][3] - N[1][3] * N[1][3]
        c23 == N[1][2] * N[1][3] - N[1][1] * N[2][3]
        c33 == N[1][1] * N[2][2] - N[1][2] * N[1][2]
    IN  << <<c11, c12, c13>>, <<c12, c22, c23>>, <<c13, c23, c33>> >>

Det(N) == Dot3(N[1], Adj(N)[1])

Trace(N) == N[1][1] + N[2][2] + N[3][3]

Rank(N) ==
    IF Det(N) # 0 THEN 3
    ELSE IF Trace(Adj(N)) # 0 THEN 2
    ELSE 1

\* the minimum-norm solution from the normal equations N = A^T A, r = A^T b
\* of a system of m rows
MinNormSolution(N, r, m) ==
    LET c1 == Trace(N)
        c2 == Trace(Adj(N))
        Nr == MatVec(N, r)
        NNr == MatVec(N, Nr)
        rk == Rank(N)
        x  == CASE rk = 3 -> RatVec(MatVec(Adj(N), r), Det(N))
                [] rk = 2 -> RatVec([i \in 1..3 |->
                                 (c1 * c1 - c2) * Nr[i] - c1 * NNr[i]], c2 * c2)
                [] rk = 1 -> RatVec(Nr, c1 * c1)
    IN  [raised |-> FALSE, x |-> x, rank |-> rk,
         residuals |-> IF rk = 3 /\ m > 3 THEN 1 ELSE 0]

\* a solver that inverts the normal equations: it raises on a singular system
InverseSolution(N, r, m) ==
    IF Det(N) = 0
    THEN [raised |-> TRUE, x |-> None, rank |-> Rank(N), residuals |-> 0]
    ELSE MinNormSolution(N, r, m)

\* (the singleton sets make N and r values that are computed once)
LstsqSingularRaises(A, b) ==
    CHOOSE res \in {InverseSolution(N, r, Len(A)) :
                        N \in {Gram(A)}, r \in {Moment(A, b)}} : TRUE

Lstsq(A, b) ==
    CHOOSE res \in {MinNormSolution(N, r, Len(A)) :
                        N \in {Gram(A)}, r \in {Moment(A, b)}} : TRUE

\* the value [ix, iy, 1] . w of the affine map w at iris, a rational
Affine(w, iris) == Rat(iris[1] * w[1] + iris[2] * w[2] + w[3], w[4])

RatLess(p, q) == p[1] * q[2] < q[1] * p[2]

\* min(a, b) and max(a, b) of Python: b when b < a (b > a), else a
PyMin(a, b) == IF RatLess(b, a) THEN b ELSE a
PyMax(a, b) == IF RatLess(a, b) THEN b ELSE a

Zero == <<0, 1>>
One == <<ScreenScale, 1>>

\* ------------------------------------------------------ CalibrationManager
\* a refusal threshold one too low
MinCalibrationPointsLow == 4 - 1

MinCalibrationPoints == 4

\* __init__
InitCalibration ==
    /\ calibration_points = <<>>
    /\ mapping_matrix_x = None
    /\ mapping_matrix_y = None
    /\ is_calibrated = FALSE

\* a reset that leaves the fitted flag set
ResetKeepsFlag ==
    /\ calibration_points' = <<>>
    /\ mapping_matrix_x' = None
    /\ mapping_matrix_y' = None
    /\ UNCHANGED is_calibrated
    /\ op' = "reset"
    /\ pre_calibrated' = is_calibrated
    /\ arg' = <<>>
    /\ ret' = None

\* a reset that leaves the coefficient vectors in place
ResetKeepsCoefficients ==
    /\ calibration_points' = <<>>
    /\ is_calibrated' = FALSE
    /\ UNCHANGED <<mapping_matrix_x, mapping_matrix_y>>
    /\ op' = "reset"
    /\ pre_calibrated' = is_calibrated
    /\ arg' = <<>>
    /\ ret' = None

\* reset()
Reset ==
    /\ calibration_points' = <<>>
    /\ is_calibrated' = FALSE
    /\ mapping_matrix_x' = None
    /\ mapping_matrix_y' = None
    /\ op' = "reset"
    /\ pre_calibrated' = is_calibrated
    /\ arg' = <<>>
    /\ ret' = None

\* a collect_sample without the guard on an absent observation
CollectSampleUnguarded(screen, iris) ==
    /\ calibration_points' =
           Append(calibration_points, [screen |-> screen, iris |-> iris])
    /\ UNCHANGED <<mapping_matrix_x, mapping_matrix_y, is_calibrated>>
    /\ op' = "collect_sample"
    /\ pre_calibrated' = is_calibrated
    /\ arg' = <<screen, iris>>
    /\ ret' = None

\* a collect_sample that invalidates the fitted model
CollectSampleInvalidates(screen, iris) ==
    /\ IF iris = None
       THEN UNCHANGED <<calibration_points, is_calibrated>>
       ELSE /\ calibration_points' =
                   Append(calibration_points, [screen |-> screen, iris |-> iris])
            /\ is_calibrated' = FALSE
    /\ UNCHANGED <<mapping_matrix_x, mapping_matrix_y>>
    /\ op' = "collect_sample"
    /\ pre_calibrated' = is_calibrated
    /\ arg' = <<screen, iris>>
    /\ ret' = None

\* collect_sample(screen_x, screen_y, iris_data), screen = <<screen_x, screen_y>>
CollectSample(screen, iris) ==
    /\ IF iris = None
       THEN UNCHANGED calibration_points
       ELSE calibration_points' =
                Append(calibration_points, [screen |-> screen, iris |-> iris])
    /\ UNCHANGED <<mapping_matrix_x, mapping_matrix_y, is_calibrated>>
    /\ op' = "collect_sample"
    /\ pre_calibrated' = is_calibrated
    /\ arg' = <<screen, iris>>
    /\ ret' = None

\* a right-hand side for x taken from the targets' y coordinates
ScreenXVecFromY(points) == [k \in 1..Len(points) |-> points[k].screen[2]]

\* the regression system built by the loop of calibrate()
IrisMatrix(points) ==
    [k \in 1..Len(points) |-> <<points[k].iris[1], points[k].iris[2], 1>>]
ScreenXVec(points) == [k \in 1..Len(points) |-> points[k].screen[1]]
ScreenYVec(points) == [k \in 1..Len(points) |-> points[k].screen[2]]

\* calibrate(): the refusal, the fit, and the except branch
Calibrate ==
    /\ op' = "calibrate"
    /\ pre_calibrated' = is_calibrated
    /\ arg' = <<>>
    /\ IF Len(calibration_points) < MinCalibrationPoints
       THEN /\ ret' = FALSE
            /\ UNCHANGED calVars
       ELSE LET A == IrisMatrix(calibration_points)
                res_x == Lstsq(A, ScreenXVec(calibration_points))
                res_y == Lstsq(A, ScreenYVec(calibration_points))
            IN  IF res_x.raised \/ res_y.raised
                THEN /\ ret' = FALSE
                     /\ UNCHANGED calVars
                ELSE /\ mapping_matrix_x' = res_x.x
                     /\ mapping_matrix_y' = res_y.x
                     /\ is_calibrated' = TRUE
                     /\ UNCHANGED calibration_points
                     /\ ret' = TRUE

\* a clamp without the lower bound
ClampUpperOnly(s) == PyMin(One, s)

\* the clamp of map_to_screen: max(0.0, min(1.0, s))
Clamp(s) == PyMax(Zero, PyMin(One, s))

\* a mapping that rejects a point off the screen instead of clamping it
MapResultRejectsOffScreen(iris) ==
    IF ~is_calibrated \/ iris = None
    THEN None
    ELSE CHOOSE p \in {IF Clamp(sx) = sx /\ Clamp(sy) = sy THEN <<sx, sy>> ELSE None :
                           sx \in {Affine(mapping_matrix_x, iris)},
                           sy \in {Affine(mapping_matrix_y, iris)}} : TRUE

\* map_to_screen(iris_data)
MapResult(iris) ==
    IF ~is_calibrated \/ iris = None
    THEN None
    ELSE CHOOSE p \in {<<Clamp(sx), Clamp(sy)>> :
                           sx \in {Affine(mapping_matrix_x, iris)},
                           sy \in {Affine(mapping_matrix_y, iris)}} : TRUE

MapToScreen(iris) ==
    /\ op' = "map_to_screen"
    /\ pre_calibrated' = is_calibrated
    /\ arg' = <<iris>>
    /\ ret' = MapResult(iris)
    /\ UNCHANGED calVars

\* get_calibration_points(): the 3x3 grid {0.1, 0.5, 0.9} x {0.1, 0.5, 0.9}
StandardGrid ==
    << <<1, 1>>, <<5, 1>>, <<9, 1>>,
       <<1, 5>>, <<5, 5>>, <<9, 5>>,
       <<1, 9>>, <<5, 9>>, <<9, 9>> >>

GetCalibrationPoints ==
    /\ op' = "get_calibration_points"
    /\ pre_calibrated' = is_calibrated
    /\ arg' = <<>>
    /\ ret' = StandardGrid
    /\ UNCHANGED calVars

\* ------------------------------------------------------------ KalmanTracker
(***************************************************************************)
(* Numbers.  The tracker's floating-point arithmetic is modelled in fixed  *)
(* point: an integer v stands for v / FP, a product or quotient is rounded *)
(* down to a multiple of 1 / FP.  The clamp interval [0.0, 1.0] is         *)
(* [0, FP].                                                                *)
(***************************************************************************)
FP == 10000
ProcessNoise == 10          \* process_noise = 1e-3
MeasurementNoise == 1000    \* measurement_noise = 1e-1
WindowSize == 5             \* _window_size

Mul(a, b) == (a * b) \div FP
Div(a, b) == (a * FP) \div b

\* 2x2 matrices in fixed point
MatMul2(A, B) ==
    << <<Mul(A[1][1], B[1][1]) + Mul(A[1][2], B[2][1]),
         Mul(A[1][1], B[1][2]) + Mul(A[1][2], B[2][2])>>,
       <<Mul(A[2][1], B[1][1]) + Mul(A[2][2], B[2][1]),
         Mul(A[2][1], B[1][2]) + Mul(A[2][2], B[2][2])>> >>
MatAdd2(A, B) ==
    << <<A[1][1] + B[1][1], A[1][2] + B[1][2]>>,
       <<A[2][1] + B[2][1], A[2][2] + B[2][2]>> >>
Transpose2(A) == << <<A[1][1], A[2][1]>>, <<A[1][2], A[2][2]>> >>
Eye2 == << <<FP, 0>>, <<0, FP>> >>

\* filterpy.kalman.KalmanFilter(dim_x=2, dim_z=1) as _init_kalman_filters
\* sets it up: F = [[1, 1], [0, 1]], H = [[1, 0]], R = measurement_noise,
\* Q = process_noise * I, P = I, x = 0
KF_F == << <<FP, FP>>, <<0, FP>> >>
KF_Q == << <<ProcessNoise, 0>>, <<0, ProcessNoise>> >>
KF_R == MeasurementNoise

NewKalmanFilter == [x |-> <<0, 0>>, P |-> Eye2]

\* KalmanFilter.predict(): x = F x, P = F P F^T + Q
KFPredict(kf) ==
    [x |-> <<kf.x[1] + kf.x[2], kf.x[2]>>,
     P |-> MatAdd2(MatMul2(MatMul2(KF_F, kf.P), Transpose2(KF_F)), KF_Q)]

\* KalmanFilter.update(z) with H = [[1, 0]]: y = z - H x, S = H P H^T + R,
\* K = P H^T / S, x = x + K y, P = (I - K H) P (I - K H)^T + K R K^T
KFUpdate(kf, z) ==
    LET y  == z - kf.x[1]
        S  == kf.P[1][1] + KF_R
        K1 == Div(kf.P[1][1], S)
        K2 == Div(kf.P[2][1], S)
        I_KH == << <<FP - K1, 0>>, <<-K2, FP>> >>
        KRK == << <<Mul(Mul(K1, KF_R), K1), Mul(Mul(K1, KF_R), K2)>>,
                  <<Mul(Mul(K2, KF_R), K1), Mul(Mul(K2, KF_R), K2)>> >>
    IN  [x |-> <<kf.x[1] + Mul(K1, y), kf.x[2] + Mul(K2, y)>>,
         P |-> MatAdd2(MatMul2(MatMul2(I_KH, kf.P), Transpose2(I_KH)), KRK)]

\* one predict-then-correct cycle of an axis filter
KFCycle(kf, z) ==
    CHOOSE r \in {KFUpdate(p, z) : p \in {KFPredict(kf)}} : TRUE

IntMin(a, b) == IF b < a THEN b ELSE a
IntMax(a, b) == IF a < b THEN b ELSE a
\* a clamp that bounds the value from above only
ClampUnitUpperOnly(v) == IntMin(FP, v)

\* max(0.0, min(1.0, v))
ClampUnit(v) == IntMax(0, IntMin(FP, v))

\* __init__, with the strategy the import of filterpy selected
InitTracker(has_filterpy) ==
    /\ HAS_FILTERPY = has_filterpy
    /\ kf_x = (IF has_filterpy THEN NewKalmanFilter ELSE None)
    /\ kf_y = (IF has_filterpy THEN NewKalmanFilter ELSE None)
    /\ initialized = FALSE
    /\ fallback_window = <<>>
    /\ kt_op = "init"
    /\ kt_arg = None
    /\ kt_ret = None
    /\ kt_updates = 0
    /\ kt_history = <<>>
    /\ kt_outputs = <<>>
    /\ kt_cycles = 0

\* a Kalman update whose seeding sets the position and keeps the velocity
KalmanUpdateSeedsPositionOnly(x, y) ==
    LET seeded_x == IF ~initialized THEN [kf_x EXCEPT !.x = <<x, kf_x.x[2]>>] ELSE kf_x
        seeded_y == IF ~initialized THEN [kf_y EXCEPT !.x = <<y, kf_y.x[2]>>] ELSE kf_y
    IN  /\ initialized' = TRUE
        /\ kf_x' = KFCycle(seeded_x, x)
        /\ kf_y' = KFCycle(seeded_y, y)
        /\ kt_cycles' = kt_cycles + 1
        /\ kt_ret' = <<ClampUnit(kf_x'.x[1]), ClampUnit(kf_y'.x[1])>>
        /\ UNCHANGED <<HAS_FILTERPY, fallback_window>>

\* _kalman_update(x, y): seed on the first measurement, then predict and update
KalmanUpdate(x, y) ==
    LET seeded_x == IF ~initialized THEN [kf_x EXCEPT !.x = <<x, 0>>] ELSE kf_x
        seeded_y == IF ~initialized THEN [kf_y EXCEPT !.x = <<y, 0>>] ELSE kf_y
    IN  /\ initialized' = TRUE
        /\ kf_x' = KFCycle(seeded_x, x)
        /\ kf_y' = KFCycle(seeded_y, y)
        /\ kt_cycles' = kt_cycles + 1
        /\ kt_ret' = <<ClampUnit(kf_x'.x[1]), ClampUnit(kf_y'.x[1])>>
        /\ UNCHANGED <<HAS_FILTERPY, fallback_window>>

RECURSIVE SumAxis(_, _)
SumAxis(window, axis) ==
    IF window = <<>> THEN 0
    ELSE Head(window)[axis] + SumAxis(Tail(window), axis)

\* a moving average whose full window drops the observation just appended
MovingAverageUpdatePopsLast(x, y) ==
    LET appended == Append(fallback_window, <<x, y>>)
        window == IF Len(appended) > WindowSize
                  THEN SubSeq(appended, 1, WindowSize)
                  ELSE appended
    IN  /\ fallback_window' = window
        /\ kt_ret' = <<SumAxis(window, 1) \div Len(window),
                       SumAxis(window, 2) \div Len(window)>>
        /\ UNCHANGED <<HAS_FILTERPY, kf_x, kf_y, initialized, kt_cycles>>

\* a moving average that keeps the window and returns the observation itself
MovingAverageUpdateReturnsLatest(x, y) ==
    LET appended == Append(fallback_window, <<x, y>>)
        window == IF Len(appended) > WindowSize THEN Tail(appended) ELSE appended
    IN  /\ fallback_window' = window
        /\ kt_ret' = <<x, y>>
        /\ UNCHANGED <<HAS_FILTERPY, kf_x, kf_y, initialized, kt_cycles>>

\* _moving_average_update(x, y)
MovingAverageUpdate(x, y) ==
    LET appended == Append(fallback_window, <<x, y>>)
        window == IF Len(appended) > WindowSize THEN Tail(appended) ELSE appended
    IN  /\ fallback_window' = window
        /\ kt_ret' = <<SumAxis(window, 1) \div Len(window),
                       SumAxis(window, 2) \div Len(window)>>
        /\ UNCHANGED <<HAS_FILTERPY, kf_x, kf_y, initialized, kt_cycles>>

\* an update that coasts on the prediction through a missing detection
UpdateCoasts(gaze_point) ==
    /\ kt_op' = "update"
    /\ kt_arg' = gaze_point
    /\ IF gaze_point = None
       THEN IF HAS_FILTERPY /\ kf_x # None /\ initialized
            THEN /\ kf_x' = KFPredict(kf_x)
                 /\ kf_y' = KFPredict(kf_y)
                 /\ kt_ret' = <<ClampUnit(kf_x'.x[1]), ClampUnit(kf_y'.x[1])>>
                 /\ UNCHANGED <<HAS_FILTERPY, initialized, fallback_window, kt_updates,
                                kt_history, kt_outputs, kt_cycles>>
            ELSE /\ kt_ret' = None
                 /\ UNCHANGED <<trackerVars, kt_updates, kt_history, kt_outputs, kt_cycles>>
       ELSE /\ kt_updates' = kt_updates + 1
            /\ kt_history' = Append(kt_history, gaze_point)
            /\ IF HAS_FILTERPY /\ kf_x # None
               THEN KalmanUpdate(gaze_point[1], gaze_point[2])
               ELSE MovingAverageUpdate(gaze_point[1], gaze_point[2])
            /\ kt_outputs' = Append(kt_outputs, kt_ret')

\* update(gaze_point)
Update(gaze_point) ==
    /\ kt_op' = "update"
    /\ kt_arg' = gaze_point
    /\ IF gaze_point = None
       THEN /\ kt_ret' = None
            /\ UNCHANGED <<trackerVars, kt_updates, kt_history, kt_outputs, kt_cycles>>
       ELSE /\ kt_updates' = kt_updates + 1
            /\ kt_history' = Append(kt_history, gaze_point)
            /\ IF HAS_FILTERPY /\ kf_x # None
               THEN KalmanUpdate(gaze_point[1], gaze_point[2])
               ELSE MovingAverageUpdate(gaze_point[1], gaze_point[2])
            /\ kt_outputs' = Append(kt_outputs, kt_ret')

\* a reset that clears the initialized flag and leaves the window as it is
TrackerResetKeepsWindow ==
    /\ initialized' = FALSE
    /\ UNCHANGED <<HAS_FILTERPY, kf_x, kf_y, fallback_window>>
    /\ kt_op' = "reset"
    /\ kt_arg' = None
    /\ kt_ret' = None
    /\ kt_history' = <<>>
    /\ kt_outputs' = <<>>
    /\ kt_cycles' = 0
    /\ UNCHANGED kt_updates

\* a reset that empties the history and leaves the initialized flag set
TrackerResetKeepsFlag ==
    /\ fallback_window' = <<>>
    /\ UNCHANGED <<HAS_FILTERPY, kf_x, kf_y, initialized>>
    /\ kt_op' = "reset"
    /\ kt_arg' = None
    /\ kt_ret' = None
    /\ kt_history' = <<>>
    /\ kt_outputs' = <<>>
    /\ kt_cycles' = 0
    /\ UNCHANGED kt_updates

\* reset(): P *= 1.0 leaves the covariances as they are
TrackerReset ==
    /\ initialized' = FALSE
    /\ fallback_window' = <<>>
    /\ UNCHANGED <<HAS_FILTERPY, kf_x, kf_y>>
    /\ kt_op' = "reset"
    /\ kt_arg' = None
    /\ kt_ret' = None
    /\ kt_history' = <<>>
    /\ kt_outputs' = <<>>
    /\ kt_cycles' = 0
    /\ UNCHANGED kt_updates

\* ------------------------------------------------------ GestureRecognizer
\* Landmark coordinates are integers in units of 1/100 and confidences in
\* units of 1/10.  A landmark is a record with fields x and y; landmark j of
\* the 0-based Python list is element j + 1 of the sequence.
ThumbThreshold == 4
PinchThreshold == 5
FrameStep == 33

THUMB_TIP == 4
INDEX_TIP == 8
MIDDLE_TIP == 12
RING_TIP == 16
PINKY_TIP == 20
INDEX_PIP == 6
MIDDLE_PIP == 10
RING_PIP == 14
PINKY_PIP == 18
THUMB_IP == 3

finger_tips == <<INDEX_TIP, MIDDLE_TIP, RING_TIP, PINKY_TIP>>
finger_pips == <<INDEX_PIP, MIDDLE_PIP, RING_PIP, PINKY_PIP>>

\* landmarks[j]
At(landmarks, j) == landmarks[j + 1]

\* whether one of the subscripts and attribute reads of _classify_gesture
\* raises: the list is shorter than 21 or a landmark read is not a point
Raises(landmarks) ==
    \/ Len(landmarks) <= PINKY_TIP
    \/ \E k \in 1..4 : \/ At(landmarks, finger_tips[k]) = None
                       \/ At(landmarks, finger_pips[k]) = None
    \/ At(landmarks, THUMB_TIP) = None
    \/ At(landmarks, THUMB_IP) = None

\* the loop over zip(finger_tips, finger_pips): the fingers among the first k
\* whose tip is above its PIP joint
RECURSIVE RaisedFingers(_, _)
RaisedFingers(landmarks, k) ==
    IF k = 0 THEN 0
    ELSE RaisedFingers(landmarks, k - 1)
         + (IF At(landmarks, finger_tips[k]).y < At(landmarks, finger_pips[k]).y
            THEN 1 ELSE 0)

\* a thumb that counts as extended from the threshold on
ThumbExtendedInclusive(landmarks) ==
    Abs(At(landmarks, THUMB_TIP).x - At(landmarks, THUMB_IP).x) >= ThumbThreshold

\* thumb_extended
ThumbExtended(landmarks) ==
    Abs(At(landmarks, THUMB_TIP).x - At(landmarks, THUMB_IP).x) > ThumbThreshold

\* extended_fingers after the thumb check
ExtendedFingers(landmarks) ==
    RaisedFingers(landmarks, 4) + (IF ThumbExtended(landmarks) THEN 1 ELSE 0)

\* an open palm only with all five extended
IsOpenPalmAllFive(extended_fingers) == extended_fingers >= 5

\* an open palm from three extended fingers on
IsOpenPalmFromThree(extended_fingers) == extended_fingers >= 3

\* elif extended_fingers >= 4
IsOpenPalm(extended_fingers) == extended_fingers >= 4

\* a pinch up to and including the threshold distance
IsPinchInclusive(landmarks) ==
    LET dx == At(landmarks, THUMB_TIP).x - At(landmarks, INDEX_TIP).x
        dy == At(landmarks, THUMB_TIP).y - At(landmarks, INDEX_TIP).y
    IN  dx * dx + dy * dy <= PinchThreshold * PinchThreshold

\* dist < 0.05, compared as squares
IsPinch(landmarks) ==
    LET dx == At(landmarks, THUMB_TIP).x - At(landmarks, INDEX_TIP).x
        dy == At(landmarks, THUMB_TIP).y - At(landmarks, INDEX_TIP).y
    IN  dx * dx + dy * dy < PinchThreshold * PinchThreshold

\* a classifier for which any single extended finger points
ClassifyGesturePointsAnyFinger(landmarks) ==
    IF Raises(landmarks) THEN <<"ERROR", 0>>
    ELSE LET extended_fingers == ExtendedFingers(landmarks)
             index_extended ==
                 At(landmarks, INDEX_TIP).y < At(landmarks, INDEX_PIP).y
         IN  IF extended_fingers = 0 THEN <<"CLOSED_FIST", 9>>
             ELSE IF IsOpenPalm(extended_fingers) THEN <<"OPEN_PALM", 9>>
             ELSE IF extended_fingers = 1 THEN <<"POINTING", 9>>
             ELSE IF extended_fingers = 2 /\ ThumbExtended(landmarks) /\ index_extended
                  THEN IF IsPinch(landmarks)
                       THEN <<"PINCH", 9>>
                       ELSE <<"PEACE_SIGN", 8>>
             ELSE <<"UNKNOWN", 5>>

\* a classifier with a label of its own for a lone thumb
ClassifyGestureThumbsUp(landmarks) ==
    IF Raises(landmarks) THEN <<"ERROR", 0>>
    ELSE LET extended_fingers == ExtendedFingers(landmarks)
             index_extended ==
                 At(landmarks, INDEX_TIP).y < At(landmarks, INDEX_PIP).y
         IN  IF extended_fingers = 0 THEN <<"CLOSED_FIST", 9>>
             ELSE IF IsOpenPalm(extended_fingers) THEN <<"OPEN_PALM", 9>>
             ELSE IF extended_fingers = 1 /\ index_extended THEN <<"POINTING", 9>>
             ELSE IF extended_fingers = 1 /\ ThumbExtended(landmarks)
                  THEN <<"THUMBS_UP", 7>>
             ELSE IF extended_fingers = 2 /\ ThumbExtended(landmarks) /\ index_extended
                  THEN IF IsPinch(landmarks)
                       THEN <<"PINCH", 9>>
                       ELSE <<"PEACE_SIGN", 8>>
             ELSE <<"UNKNOWN", 5>>

\* _classify_gesture(landmarks): (gesture_name, confidence)
ClassifyGesture(landmarks) ==
    IF Raises(landmarks) THEN <<"ERROR", 0>>
    ELSE LET extended_fingers == ExtendedFingers(landmarks)
             index_extended ==
                 At(landmarks, INDEX_TIP).y < At(landmarks, INDEX_PIP).y
         IN  IF extended_fingers = 0 THEN <<"CLOSED_FIST", 9>>
             ELSE IF IsOpenPalm(extended_fingers) THEN <<"OPEN_PALM", 9>>
             ELSE IF extended_fingers = 1 /\ index_extended THEN <<"POINTING", 9>>
             ELSE IF extended_fingers = 2 /\ ThumbExtended(landmarks) /\ index_extended
                  THEN IF IsPinch(landmarks)
                       THEN <<"PINCH", 9>>
                       ELSE <<"PEACE_SIGN", 8>>
             ELSE <<"UNKNOWN", 5>>

\* the dictionary process_frame returns when it has nothing to report
EmptyResult ==
    [gesture |-> None, landmarks |-> None, confidence |-> 0, handedness |-> None]

\* __init__, with or without a landmarker created
InitRecognizer(has_landmarker) ==
    /\ landmarker = has_landmarker
    /\ timestamp_ms = 0
    /\ current_gesture = None
    /\ confidence = 0
    /\ g_op = "init"
    /\ g_arg = None
    /\ g_ret = None
    /\ g_extended = None
    /\ pf_ret = None
    /\ g_memo = None
    /\ g_frame = None
    /\ g_detects = <<>>

\* a call that does not reach _classify_gesture
NotClassified ==
    /\ g_arg' = None
    /\ g_ret' = None
    /\ g_extended' = None

\* a classification that keeps the previous label where it finds none itself
ClassifiedSticky(landmarks) ==
    /\ g_arg' = landmarks
    /\ g_ret' = (IF ClassifyGesture(landmarks)[1] = "UNKNOWN" /\ g_ret # None
                 THEN g_ret
                 ELSE ClassifyGesture(landmarks))
    /\ g_extended' = (IF Raises(landmarks) THEN None ELSE ExtendedFingers(landmarks))

\* the effect of a call of _classify_gesture(landmarks)
Classified(landmarks) ==
    /\ g_arg' = landmarks
    /\ g_ret' = ClassifyGesture(landmarks)
    /\ g_extended' = (IF Raises(landmarks) THEN None ELSE ExtendedFingers(landmarks))

\* _classify_gesture(landmarks), called on its own
Classify(landmarks) ==
    /\ g_op' = "_classify_gesture"
    /\ Classified(landmarks)
    /\ pf_ret' = None
    /\ g_frame' = None
    /\ UNCHANGED <<recognizerVars, g_detects>>

\* a frame cv2.cvtColor converts, and one it raises on
Image == <<"image">>
NotAnImage == <<"not an image">>

\* process_frame(frame); results is what detect_for_video does with the
\* frame: it raises, or it returns the landmark lists of the hands detected
\* and the category names of their handedness
ProcessFrame(frame, results) ==
    /\ g_op' = "process_frame"
    /\ g_frame' = frame
    /\ UNCHANGED <<landmarker, current_gesture, confidence>>
    /\ IF frame = None \/ ~landmarker
       THEN /\ pf_ret' = EmptyResult
            /\ UNCHANGED <<timestamp_ms, g_detects>>
            /\ NotClassified
       ELSE IF frame = NotAnImage
       THEN /\ pf_ret' = EmptyResult
            /\ UNCHANGED <<timestamp_ms, g_detects>>
            /\ NotClassified
       ELSE /\ timestamp_ms' = timestamp_ms + FrameStep
            /\ g_detects' = Append(g_detects, timestamp_ms')
            /\ IF results.raises
               THEN /\ pf_ret' = EmptyResult
                    /\ NotClassified
               ELSE LET handedness == IF Len(results.handedness) > 0
                                      THEN results.handedness[1]
                                      ELSE None
                    IN  IF Len(results.hand_landmarks) > 0
                        THEN /\ Classified(results.hand_landmarks[1])
                             /\ pf_ret' = [gesture |-> g_ret'[1],
                                           landmarks |-> results.hand_landmarks[1],
                                           confidence |-> g_ret'[2],
                                           handedness |-> handedness]
                        ELSE /\ pf_ret' = [EmptyResult EXCEPT !.handedness = handedness]
                             /\ NotClassified

\* --------------------------------------------------------------- EyeTracker
\* Landmark coordinates are integers in units of 1/100; the gaze point, the
\* mean of the two iris centres, is kept in units of 1/200.
EyeFrameStep == 33
LEFT_IRIS_CENTER == 468
RIGHT_IRIS_CENTER == 473

\* the dictionary process_frame returns when it has nothing to report
EmptyTrackerData ==
    [gaze_point |-> None, landmarks |-> None, iris_left |-> None, iris_right |-> None]

\* __init__, with or without a landmarker created
InitEyeTracker(has_landmarker) ==
    /\ et_landmarker = has_landmarker
    /\ et_timestamp_ms = 0
    /\ current_gaze = None
    /\ et_op = "init"
    /\ et_frame = None
    /\ et_ret = None
    /\ et_detects = <<>>

\* what process_frame returns for the detector's results
TrackerData(results) ==
    IF results.raises THEN EmptyTrackerData
    ELSE IF Len(results.face_landmarks) = 0 THEN EmptyTrackerData
    ELSE LET face_landmarks == results.face_landmarks[1]
         IN  IF Len(face_landmarks) <= RIGHT_IRIS_CENTER
             THEN EmptyTrackerData
             ELSE LET left_iris == At(face_landmarks, LEFT_IRIS_CENTER)
                      right_iris == At(face_landmarks, RIGHT_IRIS_CENTER)
                  IN  [gaze_point |-> <<left_iris.x + right_iris.x,
                                        left_iris.y + right_iris.y>>,
                       landmarks |-> face_landmarks,
                       iris_left |-> <<left_iris.x, left_iris.y>>,
                       iris_right |-> <<right_iris.x, right_iris.y>>]

\* a process_frame that advances the timestamp before it looks at the frame
EyeProcessFrameStampsFirst(frame, results) ==
    /\ et_op' = "process_frame"
    /\ et_frame' = frame
    /\ UNCHANGED <<et_landmarker, current_gaze>>
    /\ et_timestamp_ms' = et_timestamp_ms + EyeFrameStep
    /\ IF frame = None \/ ~et_landmarker \/ frame = NotAnImage
       THEN /\ et_ret' = EmptyTrackerData
            /\ UNCHANGED et_detects
       ELSE /\ et_detects' = Append(et_detects, et_timestamp_ms')
            /\ et_ret' = TrackerData(results)

\* EyeTracker.process_frame(frame); results is what detect_for_video does
\* with the frame: it raises, or it returns the landmark lists of the faces
\* detected
EyeProcessFrame(frame, results) ==
    /\ et_op' = "process_frame"
    /\ et_frame' = frame
    /\ UNCHANGED <<et_landmarker, current_gaze>>
    /\ IF frame = None \/ ~et_landmarker
       THEN /\ et_ret' = EmptyTrackerData
            /\ UNCHANGED <<et_timestamp_ms, et_detects>>
       ELSE IF frame = NotAnImage
       THEN /\ et_ret' = EmptyTrackerData
            /\ UNCHANGED <<et_timestamp_ms, et_detects>>
       ELSE /\ et_timestamp_ms' = et_timestamp_ms + EyeFrameStep
            /\ et_detects' = Append(et_detects, et_timestamp_ms')
            /\ et_ret' = TrackerData(results)

\* --------------------------------------------------------------------- Camera
\* __init__
InitCamera ==
    /\ cap = 0
    /\ is_running = FALSE
    /\ thread = 0
    /\ current_frame = None
    /\ lock = "free"
    /\ video_captures = <<>>
    /\ capture_threads = <<>>
    /\ frames_read = 0
    /\ cam_pc = "idle"
    /\ cam_op = "init"
    /\ cam_ret = None
    /\ last_stored = 0

\* the array cap.read() returns for the n-th image of the device
Frame(n) == [owner |-> "camera", image |-> n]

\* frame.copy(): a new array with the same image, held by the caller only
Copy(frame) == [owner |-> "caller", image |-> frame.image]

\* the capture threads that have not left _capture_loop
Alive == {t \in 1..Len(capture_threads) : capture_threads[t].pc # "done"}

\* start(); opens is whether the device could be opened
Start(opens) ==
    /\ cam_pc = "idle"
    /\ cam_op' = "start"
    /\ cam_ret' = None
    /\ UNCHANGED <<current_frame, lock, frames_read, cam_pc, last_stored>>
    /\ IF is_running
       THEN UNCHANGED <<cap, is_running, thread, video_captures, capture_threads>>
       ELSE /\ video_captures' =
                  Append(video_captures, IF opens THEN "opened" ELSE "closed")
            /\ cap' = Len(video_captures')
            /\ IF opens
               THEN /\ is_running' = TRUE
                    /\ capture_threads' =
                          Append(capture_threads,
                                 [pc |-> "test", frame |-> None, stopped |-> FALSE])
                    /\ thread' = Len(capture_threads')
               ELSE /\ is_running' = FALSE
                    /\ UNCHANGED <<thread, capture_threads>>

\* stop(), up to the call of join
StopBegin ==
    /\ cam_pc = "idle"
    /\ is_running' = FALSE
    /\ cam_pc' = "stop_join"
    /\ UNCHANGED <<cap, thread, current_frame, lock, cameraEnvVars,
                   cam_op, cam_ret, last_stored>>

\* stop(), from the return of join: join(timeout=1.0) returns when the
\* thread has ended or when the second has passed, whichever is first; then
\* the device is released
StopEnd ==
    /\ cam_pc = "stop_join"
    /\ video_captures' =
          (IF cap # 0 THEN [video_captures EXCEPT ![cap] = "closed"]
           ELSE video_captures)
    /\ capture_threads' =
          [t \in 1..Len(capture_threads) |->
              [capture_threads[t] EXCEPT !.stopped = TRUE]]
    /\ cam_pc' = "idle"
    /\ cam_op' = "stop"
    /\ cam_ret' = None
    /\ UNCHANGED <<cameraObjVars, frames_read, last_stored>>

\* get_frame(): with self.lock
GetFrameAcquire ==
    /\ cam_pc = "idle"
    /\ lock = "free"
    /\ lock' = "client"
    /\ cam_pc' = "get_frame"
    /\ UNCHANGED <<cap, is_running, thread, current_frame, cameraEnvVars,
                   cam_op, cam_ret, last_stored>>

\* get_frame(): the body of the with statement and the release of the lock
GetFrameBody ==
    /\ cam_pc = "get_frame"
    /\ cam_ret' = (IF current_frame = None THEN <<FALSE, None>>
                   ELSE <<TRUE, Copy(current_frame)>>)
    /\ lock' = "free"
    /\ cam_pc' = "idle"
    /\ cam_op' = "get_frame"
    /\ UNCHANGED <<cap, is_running, thread, current_frame, cameraEnvVars, last_stored>>

\* _capture_loop: the condition of the while statement
LoopTest(t) ==
    /\ capture_threads[t].pc = "test"
    /\ capture_threads' =
          [capture_threads EXCEPT ![t].pc =
              IF is_running /\ cap # 0 /\ video_captures[cap] = "opened"
              THEN "read" ELSE "done"]
    /\ UNCHANGED <<cameraObjVars, video_captures, frames_read, camObsVars>>

\* _capture_loop: ret, frame = self.cap.read(); delivers is whether an opened
\* device gives a frame
CapRead(t, delivers) ==
    /\ capture_threads[t].pc = "read"
    /\ IF video_captures[cap] = "opened" /\ delivers
       THEN /\ frames_read' = frames_read + 1
            /\ capture_threads' =
                  [capture_threads EXCEPT ![t].pc = "acquire",
                                          ![t].frame = Frame(frames_read')]
       ELSE /\ capture_threads' = [capture_threads EXCEPT ![t].pc = "test"]
            /\ UNCHANGED frames_read
    /\ UNCHANGED <<cameraObjVars, video_captures, camObsVars>>

\* a capture thread that enters the with statement without the lock
StoreAcquireUnlocked(t) ==
    /\ capture_threads[t].pc = "acquire"
    /\ capture_threads' = [capture_threads EXCEPT ![t].pc = "store"]
    /\ UNCHANGED <<cameraObjVars, video_captures, frames_read, camObsVars>>

\* _capture_loop: with self.lock
StoreAcquire(t) ==
    /\ capture_threads[t].pc = "acquire"
    /\ lock = "free"
    /\ lock' = "capture"
    /\ capture_threads' = [capture_threads EXCEPT ![t].pc = "store"]
    /\ UNCHANGED <<cap, is_running, thread, current_frame, video_captures,
                   frames_read, camObsVars>>

\* _capture_loop: self.current_frame = frame, and the release of the lock
Store(t) ==
    /\ capture_threads[t].pc = "store"
    /\ current_frame' = capture_threads[t].frame
    /\ last_stored' = capture_threads[t].frame.image
    /\ lock' = "free"
    /\ capture_threads' = [capture_threads EXCEPT ![t].pc = "test"]
    /\ UNCHANGED <<cap, is_running, thread, video_captures, frames_read,
                   cam_pc, cam_op, cam_ret>>

\* ------------------------------------------------ the calls a client makes
\* the (screen target, iris observation) pairs offered to collect_sample.  The
\* three iris points are not collinear and any two of them are, so sample sets
\* of rank 1, 2 and 3 all occur; the first three pairs lie on one affine map
\* and the fourth contradicts the first, so exact and inexact fits both occur.
Samples ==
    { << <<1, 1>>, <<0, 0>> >>,
      << <<9, 1>>, <<1, 0>> >>,
      << <<1, 9>>, <<0, 1>> >>,
      << <<5, 5>>, <<0, 0>> >> }
IrisPoints == {s[2] : s \in Samples}
\* iris observations offered to map_to_screen: calibrated ones and far ones
MapInputs == IrisPoints \cup {<<4, -3>>, <<-2, 5>>}

NoSession == << << <<1, 0>>, <<0, 1>> >>, <<0, 0>> >>

Init ==
    /\ InitCalibration
    /\ op = "init"
    /\ pre_calibrated = FALSE
    /\ arg = <<>>
    /\ ret = None
    /\ grid_map = NoSession
    /\ grid_pc = 0
    /\ InitTracker(TRUE)
    /\ InitRecognizer(TRUE)
    /\ InitEyeTracker(TRUE)
    /\ InitCamera

DoReset == Reset /\ UNCHANGED <<gridVars, ktVars, gestureVars, eyeVars, cameraVars>>

DoCollectSample ==
    /\ Len(calibration_points) < MaxSamples
    /\ \E s \in Samples \cup {<< <<5, 5>>, None >>} : CollectSample(s[1], s[2])
    /\ UNCHANGED <<gridVars, ktVars, gestureVars, eyeVars, cameraVars>>

DoCalibrate == Calibrate /\ UNCHANGED <<gridVars, ktVars, gestureVars, eyeVars, cameraVars>>

DoMapToScreen ==
    /\ \E iris \in MapInputs \cup {None} : MapToScreen(iris)
    /\ UNCHANGED <<gridVars, ktVars, gestureVars, eyeVars, cameraVars>>

DoGetCalibrationPoints == GetCalibrationPoints /\ UNCHANGED <<gridVars, ktVars, gestureVars, eyeVars, cameraVars>>

Next ==
    \/ DoReset
    \/ DoCollectSample
    \/ DoCalibrate
    \/ DoMapToScreen
    \/ DoGetCalibrationPoints

Spec == Init /\ [][Next]_vars

\* ------------------------------- a calibration session on the standard grid
\* The caller collects the 9 targets of get_calibration_points(), each with the
\* iris observation M.target + c, calls calibrate() once, then maps
\* observations.  M ranges over the invertible matrices with entries in
\* -1..1, c over a few offsets.
Det2(M) == M[1][1] * M[2][2] - M[1][2] * M[2][1]

GridMatrices ==
    {M \in {<< <<a, b>>, <<c, d>> >> : a, b, c, d \in -1..1} : Det2(M) # 0}

GridOffsets == {<<0, 0>>, <<2, -1>>}

\* the iris observation for grid target k under the session's map
GridIris(k) ==
    LET M == grid_map[1]
        c == grid_map[2]
        t == StandardGrid[k]
    IN  <<M[1][1] * t[1] + M[1][2] * t[2] + c[1],
          M[2][1] * t[1] + M[2][2] * t[2] + c[2]>>

GridSteps == Len(StandardGrid)

InitGrid ==
    /\ InitCalibration
    /\ op = "init"
    /\ pre_calibrated = FALSE
    /\ arg = <<>>
    /\ ret = None
    /\ grid_map \in GridMatrices \X GridOffsets
    /\ grid_pc = 0
    /\ InitTracker(TRUE)
    /\ InitRecognizer(TRUE)
    /\ InitEyeTracker(TRUE)
    /\ InitCamera

GridCollect ==
    /\ grid_pc < GridSteps
    /\ CollectSample(StandardGrid[grid_pc + 1], GridIris(grid_pc + 1))
    /\ grid_pc' = grid_pc + 1
    /\ UNCHANGED <<grid_map, ktVars, gestureVars, eyeVars, cameraVars>>

GridCalibrate ==
    /\ grid_pc = GridSteps
    /\ Calibrate
    /\ grid_pc' = grid_pc + 1
    /\ UNCHANGED <<grid_map, ktVars, gestureVars, eyeVars, cameraVars>>

GridMap ==
    /\ grid_pc = GridSteps + 1
    /\ \E k \in 1..GridSteps : MapToScreen(GridIris(k))
    /\ UNCHANGED <<gridVars, ktVars, gestureVars, eyeVars, cameraVars>>

NextGrid ==
    \/ GridCollect
    \/ GridCalibrate
    \/ GridMap

SpecGrid == InitGrid /\ [][NextGrid]_vars

\* --------------------------------------------- the calls on a KalmanTracker
\* gaze points offered to update, in units of 1 / FP; the third shares one
\* coordinate with each of the first two and the last lies outside the unit
\* square
GazePoints == {<<2000, 8000>>, <<6000, 5000>>, <<6000, 8000>>, <<15000, -5000>>}

InitKT ==
    /\ InitCalibration
    /\ op = "init"
    /\ pre_calibrated = FALSE
    /\ arg = <<>>
    /\ ret = None
    /\ grid_map = NoSession
    /\ grid_pc = 0
    /\ \E has_filterpy \in BOOLEAN : InitTracker(has_filterpy)
    /\ InitRecognizer(TRUE)
    /\ InitEyeTracker(TRUE)
    /\ InitCamera

DoUpdate ==
    /\ \E gaze_point \in GazePoints \cup {None} :
           /\ gaze_point # None => kt_updates < MaxUpdates
           /\ Update(gaze_point)
    /\ UNCHANGED <<calVars, obsVars, gridVars, gestureVars, eyeVars, cameraVars>>

DoTrackerReset == TrackerReset /\ UNCHANGED <<calVars, obsVars, gridVars, gestureVars, eyeVars, cameraVars>>

NextKT ==
    \/ DoUpdate
    \/ DoTrackerReset

SpecKT == InitKT /\ [][NextKT]_vars

\* ------------------------------------------ the calls on a GestureRecognizer
\* the largest number of frames given to the detector
MaxFrames == 2

Point(x, y) == [x |-> x, y |-> y]

\* a hand of 21 landmarks: every joint at (50, 50), the tips of the index,
\* middle, ring and little finger at the given heights (y grows downwards)
\* and the thumb tip at the given point
Hand(index_y, middle_y, ring_y, pinky_y, thumb_tip) ==
    [j \in 1..21 |->
        IF j = INDEX_TIP + 1 THEN Point(55, index_y)
        ELSE IF j = MIDDLE_TIP + 1 THEN Point(50, middle_y)
        ELSE IF j = RING_TIP + 1 THEN Point(50, ring_y)
        ELSE IF j = PINKY_TIP + 1 THEN Point(50, pinky_y)
        ELSE IF j = THUMB_TIP + 1 THEN thumb_tip
        ELSE Point(50, 50)]

\* an index tip above, level with and below its PIP joint; the tips of the
\* other three fingers above and level
IndexHeights == {40, 50, 60}
TipHeights == {40, 50}

\* thumb tips at distance 4 from the thumb's IP joint on either side (not
\* extended) and further away (extended), the latter at distance 4, exactly 5
\* (twice) and 10 from an extended index tip at (55, 40)
ThumbTips ==
    {Point(54, 40), Point(46, 40),
     Point(55, 44), Point(55, 45), Point(58, 44), Point(45, 40)}

Hands ==
    {Hand(i, m, r, p, t) : i \in IndexHeights, m \in TipHeights, r \in TipHeights,
                           p \in TipHeights, t \in ThumbTips}

\* a list one landmark short, a list with one landmark too many, and a list
\* whose thumb IP entry is not a landmark
OpenHand == Hand(40, 40, 40, 40, Point(45, 40))
IllFormed ==
    {SubSeq(OpenHand, 1, 20),
     Append(OpenHand, Point(50, 50)),
     [OpenHand EXCEPT ![THUMB_IP + 1] = None]}

LandmarkLists == Hands \cup IllFormed

\* what the detector can do with a frame: raise, see no hand, or see a hand,
\* with its handedness or in one case without
NoHand == [raises |-> FALSE, hand_landmarks |-> <<>>, handedness |-> <<>>]
DetectorResults ==
    {[NoHand EXCEPT !.raises = TRUE], NoHand,
     [NoHand EXCEPT !.hand_landmarks = <<OpenHand>>]}
    \cup {[raises |-> FALSE, hand_landmarks |-> <<h>>, handedness |-> <<"Right">>] :
            h \in LandmarkLists}

InitGesture ==
    /\ InitCalibration
    /\ op = "init"
    /\ pre_calibrated = FALSE
    /\ arg = <<>>
    /\ ret = None
    /\ grid_map = NoSession
    /\ grid_pc = 0
    /\ InitTracker(TRUE)
    /\ \E has_landmarker \in BOOLEAN : InitRecognizer(has_landmarker)
    /\ InitEyeTracker(TRUE)
    /\ InitCamera

DoClassify ==
    /\ \E landmarks \in LandmarkLists : Classify(landmarks)
    /\ UNCHANGED <<calVars, obsVars, gridVars, ktVars, eyeVars, cameraVars, g_memo>>

DoProcessFrame ==
    /\ \E frame \in {None, NotAnImage, Image} :
           IF landmarker /\ frame = Image
           THEN /\ timestamp_ms < MaxFrames * FrameStep
                /\ \E results \in DetectorResults : ProcessFrame(frame, results)
           ELSE ProcessFrame(frame, NoHand)
    /\ UNCHANGED <<calVars, obsVars, gridVars, ktVars, eyeVars, cameraVars, g_memo>>

NextGesture ==
    \/ DoClassify
    \/ DoProcessFrame

SpecGesture == InitGesture /\ [][NextGesture]_vars

\* --------------------------------- repeated classification of the same hands
\* one hand for each label, and a list one landmark short
Probes ==
    {Hand(50, 50, 50, 50, Point(54, 40)),
     OpenHand,
     Hand(40, 50, 50, 50, Point(54, 40)),
     Hand(40, 50, 50, 50, Point(55, 44)),
     Hand(40, 50, 50, 50, Point(55, 45)),
     Hand(50, 40, 40, 50, Point(54, 40)),
     SubSeq(OpenHand, 1, 20)}

ProbeResults ==
    {[NoHand EXCEPT !.raises = TRUE], NoHand}
    \cup {[raises |-> FALSE, hand_landmarks |-> <<h>>, handedness |-> <<"Right">>] :
            h \in Probes}

\* note the first classification, and whether a later one is of another list
Remember ==
    g_memo' =
        IF g_ret' = None THEN g_memo
        ELSE IF g_memo = None
        THEN [landmarks |-> g_arg', result |-> g_ret', others |-> FALSE]
        ELSE [g_memo EXCEPT !.others = @ \/ g_arg' # g_memo.landmarks]

DoClassifyProbe ==
    /\ \E landmarks \in Probes : Classify(landmarks)
    /\ Remember
    /\ UNCHANGED <<calVars, obsVars, gridVars, ktVars, eyeVars, cameraVars>>

DoProcessProbe ==
    /\ \E frame \in {None, NotAnImage, Image} :
           IF landmarker /\ frame = Image
           THEN /\ timestamp_ms < MaxFrames * FrameStep
                /\ \E results \in ProbeResults : ProcessFrame(frame, results)
           ELSE ProcessFrame(frame, NoHand)
    /\ Remember
    /\ UNCHANGED <<calVars, obsVars, gridVars, ktVars, eyeVars, cameraVars>>

NextPure ==
    \/ DoClassifyProbe
    \/ DoProcessProbe

SpecPure == InitGesture /\ [][NextPure]_vars

\* ------------------------- frames given to an EyeTracker and a GestureRecognizer
\* a face of 478 landmarks with the two iris centres at the given points
Face(left_iris, right_iris) ==
    [j \in 1..478 |->
        IF j = LEFT_IRIS_CENTER + 1 THEN left_iris
        ELSE IF j = RIGHT_IRIS_CENTER + 1 THEN right_iris
        ELSE Point(50, 50)]

\* what the face detector can do with a frame: raise, see no face, see a
\* face, or return a list without the iris landmarks
NoFace == [raises |-> FALSE, face_landmarks |-> <<>>]
FaceResults ==
    {[NoFace EXCEPT !.raises = TRUE], NoFace,
     [NoFace EXCEPT !.face_landmarks = <<Face(Point(40, 50), Point(60, 52))>>],
     [NoFace EXCEPT !.face_landmarks =
         <<SubSeq(Face(Point(40, 50), Point(60, 52)), 1, 470)>>]}

InitFrames ==
    /\ InitCalibration
    /\ op = "init"
    /\ pre_calibrated = FALSE
    /\ arg = <<>>
    /\ ret = None
    /\ grid_map = NoSession
    /\ grid_pc = 0
    /\ InitTracker(TRUE)
    /\ \E has_landmarker \in BOOLEAN : InitRecognizer(has_landmarker)
    /\ \E has_landmarker \in BOOLEAN : InitEyeTracker(has_landmarker)
    /\ InitCamera

DoEyeProcessFrame ==
    /\ \E frame \in {None, NotAnImage, Image} :
           IF et_landmarker /\ frame = Image
           THEN /\ et_timestamp_ms < MaxFrames * EyeFrameStep
                /\ \E results \in FaceResults : EyeProcessFrame(frame, results)
           ELSE EyeProcessFrame(frame, NoFace)
    /\ UNCHANGED <<calVars, obsVars, gridVars, ktVars, gestureVars, cameraVars>>

DoGestureProcessFrame ==
    /\ \E frame \in {None, NotAnImage, Image} :
           IF landmarker /\ frame = Image
           THEN /\ timestamp_ms < MaxFrames * FrameStep
                /\ \E results \in ProbeResults : ProcessFrame(frame, results)
           ELSE ProcessFrame(frame, NoHand)
    /\ UNCHANGED <<calVars, obsVars, gridVars, ktVars, eyeVars, cameraVars, g_memo>>

NextFrames ==
    \/ DoEyeProcessFrame
    \/ DoGestureProcessFrame

SpecFrames == InitFrames /\ [][NextFrames]_vars

\* ------------------ the gaze pipeline smoother.update(calibration.map_to_screen(obs))
\* the screen point map_to_screen returns, a pair of rationals in units of
\* 1 / ScreenScale, as the smoother reads it, in units of 1 / FP
ToGazePoint(screen) ==
    IF screen = None
    THEN None
    ELSE <<(screen[1][1] * FP) \div (screen[1][2] * ScreenScale),
           (screen[2][1] * FP) \div (screen[2][2] * ScreenScale)>>

\* one frame of the pipeline: the stage output of map_to_screen is the
\* argument of update
GazePipeline(obs) ==
    /\ MapToScreen(obs)
    /\ Update(ToGazePoint(MapResult(obs)))

\* the samples of a calibration session, in the order they are collected
PipelineSamples ==
    << << <<1, 1>>, <<0, 0>> >>,
       << <<9, 1>>, <<1, 0>> >>,
       << <<1, 9>>, <<0, 1>> >>,
       << <<5, 5>>, <<0, 0>> >> >>

\* observations given to the pipeline
PipelineInputs == {None, <<1, 0>>, <<0, 1>>, <<4, -3>>}

InitPipeline ==
    /\ InitCalibration
    /\ op = "init"
    /\ pre_calibrated = FALSE
    /\ arg = <<>>
    /\ ret = None
    /\ grid_map = NoSession
    /\ grid_pc = 0
    /\ \E has_filterpy \in BOOLEAN : InitTracker(has_filterpy)
    /\ InitRecognizer(TRUE)
    /\ InitEyeTracker(TRUE)
    /\ InitCamera

DoPipelineCollect ==
    /\ Len(calibration_points) < Len(PipelineSamples)
    /\ LET sample == PipelineSamples[Len(calibration_points) + 1]
       IN  CollectSample(sample[1], sample[2])
    /\ UNCHANGED <<gridVars, ktVars, gestureVars, eyeVars, cameraVars>>

DoPipelineCalibrate == Calibrate /\ UNCHANGED <<gridVars, ktVars, gestureVars, eyeVars, cameraVars>>

DoPipelineReset == Reset /\ UNCHANGED <<gridVars, ktVars, gestureVars, eyeVars, cameraVars>>

DoGazePipeline ==
    /\ \E obs \in PipelineInputs :
           /\ MapResult(obs) # None => kt_updates < MaxPipelineFrames
           /\ GazePipeline(obs)
    /\ UNCHANGED <<gridVars, gestureVars, eyeVars, cameraVars>>

NextPipeline ==
    \/ DoPipelineCollect
    \/ DoPipelineCalibrate
    \/ DoPipelineReset
    \/ DoGazePipeline

SpecPipeline == InitPipeline /\ [][NextPipeline]_vars

\* ------------------------------------- a Camera, its caller and its threads
otherVars == <<calVars, obsVars, gridVars, ktVars, gestureVars, eyeVars>>

InitCam ==
    /\ InitCalibration
    /\ op = "init"
    /\ pre_calibrated = FALSE
    /\ arg = <<>>
    /\ ret = None
    /\ grid_map = NoSession
    /\ grid_pc = 0
    /\ InitTracker(TRUE)
    /\ InitRecognizer(TRUE)
    /\ InitEyeTracker(TRUE)
    /\ InitCamera

DoStart ==
    /\ is_running \/ Len(video_captures) < MaxStarts
    /\ \E opens \in BOOLEAN : Start(opens)
    /\ UNCHANGED otherVars

DoStopBegin == StopBegin /\ UNCHANGED otherVars

DoStopEnd == StopEnd /\ UNCHANGED otherVars

DoGetFrameAcquire == GetFrameAcquire /\ UNCHANGED otherVars

DoGetFrameBody == GetFrameBody /\ UNCHANGED otherVars

DoLoopTest == (\E t \in 1..Len(capture_threads) : LoopTest(t)) /\ UNCHANGED otherVars

DoCapRead ==
    /\ \E t \in 1..Len(capture_threads) :
           \E delivers \in BOOLEAN :
              /\ delivers => frames_read < MaxImages
              /\ CapRead(t, delivers)
    /\ UNCHANGED otherVars

DoStoreAcquire == (\E t \in 1..Len(capture_threads) : StoreAcquire(t)) /\ UNCHANGED otherVars

DoStore == (\E t \in 1..Len(capture_threads) : Store(t)) /\ UNCHANGED otherVars

NextCam ==
    \/ DoStart
    \/ DoStopBegin
    \/ DoStopEnd
    \/ DoGetFrameAcquire
    \/ DoGetFrameBody
    \/ DoLoopTest
    \/ DoCapRead
    \/ DoStoreAcquire
    \/ DoStore

SpecCam == InitCam /\ [][NextCam]_vars

\* ---------------------------------------------- claims on CalibrationManager
modelVars == <<mapping_matrix_x, mapping_matrix_y, is_calibrated>>

\* a rational lies in [0.0, 1.0]
InUnit(q) == q[2] > 0 /\ 0 <= q[1] /\ q[1] <= ScreenScale * q[2]

\* C1: calibrate() with fewer than 4 collected samples returns False and leaves
\* is_calibrated and both coefficient vectors as they were.
C1_RefusalKeepsModel ==
    [][(op' = "calibrate" /\ Len(calibration_points) < 4)
        => /\ ret' = FALSE
           /\ is_calibrated' = is_calibrated
           /\ mapping_matrix_x' = mapping_matrix_x
           /\ mapping_matrix_y' = mapping_matrix_y
           /\ calibration_points' = calibration_points]_vars

C1_Witness ==
    /\ op = "calibrate"
    /\ ret = FALSE
    /\ Len(calibration_points) = 3

\* C2: a fitted engine holds at least 4 samples and both coefficient vectors;
\* an engine that is not fitted maps every input to none.
C2_FittedHasFourSamples ==
    /\ is_calibrated =>
          /\ Len(calibration_points) >= 4
          /\ mapping_matrix_x # None
          /\ mapping_matrix_y # None
    /\ ~is_calibrated =>
          /\ \A iris \in MapInputs \cup {None} : MapResult(iris) = None
          /\ op = "map_to_screen" => ret = None

C2_Witness ==
    /\ is_calibrated
    /\ Len(calibration_points) = 4
    /\ op = "map_to_screen"
    /\ ret # None

\* C3: reset() yields the state of a freshly constructed engine: no samples, not
\* fitted, no coefficients, so that map_to_screen then returns none for every
\* input and calibrate() returns False; a second reset() changes nothing.
FreshCalibration ==
    /\ calibration_points = <<>>
    /\ mapping_matrix_x = None
    /\ mapping_matrix_y = None
    /\ is_calibrated = FALSE

C3_ResetIsFresh ==
    [][/\ op' = "reset" => FreshCalibration'
       /\ (op = "reset" /\ op' = "reset") => UNCHANGED calVars
       /\ (op = "reset" /\ op' = "map_to_screen") => ret' = None
       /\ (op = "reset" /\ op' = "calibrate") =>
              (ret' = FALSE /\ FreshCalibration')]_vars

C3_Witness ==
    /\ op = "reset"
    /\ pre_calibrated
    /\ FreshCalibration

\* C4: collect_sample with an absent iris observation appends nothing and
\* changes neither the samples, the fitted flag nor the coefficients; with a
\* present observation it appends exactly that one sample at the end and
\* leaves the earlier samples and the model unchanged.
C4_CollectAppendsOne ==
    [][op' = "collect_sample" =>
        /\ UNCHANGED modelVars
        /\ ret' = None
        /\ IF arg'[2] = None
           THEN calibration_points' = calibration_points
           ELSE /\ Len(calibration_points') = Len(calibration_points) + 1
                /\ SubSeq(calibration_points', 1, Len(calibration_points))
                       = calibration_points
                /\ calibration_points'[Len(calibration_points')]
                       = [screen |-> arg'[1], iris |-> arg'[2]]]_vars

C4_Witness ==
    /\ op = "collect_sample"
    /\ arg[2] = None
    /\ is_calibrated
    /\ Len(calibration_points) = 4

\* C5: map_to_screen returns none exactly when the engine is not fitted or the
\* iris observation is absent; otherwise it returns a pair.
C5_NoneIffUnfittedOrAbsent ==
    [][op' = "map_to_screen" =>
        /\ (ret' = None) <=> (~is_calibrated \/ arg'[1] = None)
        /\ ret' # None => Len(ret') = 2]_vars

C5_Witness ==
    /\ op = "map_to_screen"
    /\ is_calibrated
    /\ arg[1] \in MapInputs \ IrisPoints
    /\ ret # None

\* C6: each coordinate map_to_screen returns is the affine value
\* w1*ix + w2*iy + w3 of its axis clamped to [0,1]: the value itself when it
\* lies in [0,1], 0 when it is below, 1 when it is above.
ClampedValueOf(r, v) ==
    /\ InUnit(r)
    /\ RatLess(v, Zero) => r = Zero
    /\ RatLess(One, v) => r = One
    /\ (~RatLess(v, Zero) /\ ~RatLess(One, v)) => r = v

C6_ClampedAffine ==
    [][(op' = "map_to_screen" /\ ret' # None) =>
        /\ ClampedValueOf(ret'[1], Affine(mapping_matrix_x, arg'[1]))
        /\ ClampedValueOf(ret'[2], Affine(mapping_matrix_y, arg'[1]))]_vars

\* one axis clamped from above and the other from below, for a far input
C6_Witness ==
    /\ op = "map_to_screen"
    /\ ret # None
    /\ arg[1] \notin IrisPoints
    /\ RatLess(One, Affine(mapping_matrix_x, arg[1]))
    /\ RatLess(Affine(mapping_matrix_y, arg[1]), Zero)
    /\ ret = <<One, Zero>>

\* C8: with at least 4 collected samples calibrate() succeeds: it returns True
\* and stores both coefficient vectors, also when the iris observations are all
\* identical or collinear; it fails only with fewer than 4 samples.
C8_FitAlwaysSucceeds ==
    [][op' = "calibrate" =>
        /\ ret' \in BOOLEAN
        /\ Len(calibration_points) >= 4 =>
              /\ ret' = TRUE
              /\ is_calibrated'
              /\ Len(mapping_matrix_x') = 4
              /\ Len(mapping_matrix_y') = 4
        /\ ret' = FALSE => Len(calibration_points) < 4]_vars

\* a successful fit on samples whose iris observations are all identical
C8_Witness ==
    /\ op = "calibrate"
    /\ ret = TRUE
    /\ Len(calibration_points) >= 4
    /\ \A k \in 1..Len(calibration_points) :
           calibration_points[k].iris = calibration_points[1].iris
    /\ \E k \in 1..Len(calibration_points) :
           calibration_points[k].screen # calibration_points[1].screen

\* C9: once fitted, the coefficient vectors change only by a successful
\* calibrate() or by reset(); every other call leaves them, and so the result
\* of map_to_screen for every input, unchanged.
C9_ModelFrozenUntilRefit ==
    [][is_calibrated =>
        \/ op' = "reset"
        \/ op' = "calibrate" /\ ret' = TRUE
        \/ /\ UNCHANGED modelVars
           /\ \A iris \in MapInputs : MapResult(iris)' = MapResult(iris)]_vars

\* a sample collected after the fit: the stored model is still the earlier fit,
\* not the fit of the samples now held
C9_Witness ==
    /\ op = "collect_sample"
    /\ arg[2] # None
    /\ pre_calibrated
    /\ is_calibrated
    /\ mapping_matrix_x #
           Lstsq(IrisMatrix(calibration_points), ScreenXVec(calibration_points)).x

\* ---------------------------------------------------- claims on the session
\* C7: after the 9 standard-grid targets are collected with iris observations
\* that are an exact invertible affine function of the targets, calibrate()
\* succeeds and map_to_screen of each of those observations returns the
\* target it was collected with.
C7_GridRoundTrip ==
    /\ op = "calibrate" => (ret = TRUE /\ Len(calibration_points) = 9)
    /\ op = "map_to_screen" =>
          \A k \in 1..9 :
              arg[1] = GridIris(k) =>
                  ret = <<Rat(StandardGrid[k][1], 1), Rat(StandardGrid[k][2], 1)>>

\* a corner target recovered under a map that shears and shifts
C7_Witness ==
    /\ op = "map_to_screen"
    /\ grid_map = << << <<1, 1>>, <<-1, 1>> >>, <<2, -1>> >>
    /\ arg[1] = GridIris(9)
    /\ ret = <<<<9, 1>>, <<9, 1>>>>

\* ------------------------------------------------- claims on KalmanTracker
\* C10: update(None) returns None under either strategy and leaves the
\* filters, the initialized flag and the history as they were, so every later
\* output is what it would have been without the call.
C10_UpdateNoneIsNoOp ==
    [][(kt_op' = "update" /\ kt_arg' = None) =>
        /\ kt_ret' = None
        /\ UNCHANGED trackerVars]_vars

\* a missing detection while the Kalman filters are tracking and moving
C10_Witness ==
    /\ kt_op = "update"
    /\ kt_arg = None
    /\ kt_ret = None
    /\ HAS_FILTERPY
    /\ initialized
    /\ kf_x.x[2] # 0

\* whether the next valid observation continues a track rather than starting
\* one: under the Kalman strategy the _initialized flag tested by
\* _kalman_update, under the moving average (which never sets the flag) a
\* non-empty window
Tracking ==
    IF HAS_FILTERPY /\ kf_x # None THEN initialized ELSE fallback_window # <<>>

\* C11: the smoother is UNINITIALIZED after construction, becomes TRACKING
\* on the first valid update, stays TRACKING across every later update, valid
\* or absent, and returns to UNINITIALIZED by reset() and by nothing else,
\* under the Kalman and under the moving-average strategy.
C11_StateMachine ==
    /\ ~Tracking
    /\ [][/\ (kt_op' = "update" /\ kt_arg' # None) => Tracking'
          /\ (kt_op' = "update" /\ kt_arg' = None) => (Tracking' <=> Tracking)
          /\ kt_op' = "reset" => ~Tracking'
          /\ (Tracking /\ ~Tracking') => kt_op' = "reset"
          /\ (~Tracking /\ Tracking') => (kt_op' = "update" /\ kt_arg' # None)]_vars

\* a missing detection on a moving-average track begun after a reset
C11_Witness ==
    /\ kt_op = "update"
    /\ kt_arg = None
    /\ Tracking
    /\ ~HAS_FILTERPY
    /\ Len(kt_history) >= 1
    /\ kt_updates > Len(kt_history)

\* C12: under the Kalman strategy the first valid observation after
\* construction or reset only seeds each axis filter with position = raw value
\* and velocity = 0 and runs no predict/correct cycle, and every later valid
\* update runs exactly one cycle per axis, so after k valid updates since
\* seeding each axis has been through k - 1 cycles.
C12_SeedThenCycle ==
    (HAS_FILTERPY /\ kt_op = "update" /\ kt_arg # None) =>
        /\ kt_cycles = Len(kt_history) - 1
        /\ Len(kt_history) = 1 =>
              /\ kf_x.x = <<kt_arg[1], 0>>
              /\ kf_y.x = <<kt_arg[2], 0>>
              /\ kt_updates = 1 => (kf_x.P = Eye2 /\ kf_y.P = Eye2)

\* C13: under the Kalman strategy every point update returns lies in [0,1] on
\* each axis, whatever observations (inside or outside [0,1]), missing
\* detections and resets came before.
C13_KalmanOutputInUnitSquare ==
    (HAS_FILTERPY /\ kt_op = "update" /\ kt_ret # None) =>
        /\ kt_ret[1] \in 0..FP
        /\ kt_ret[2] \in 0..FP

\* the filter's position estimate has left the unit square on both sides and
\* the returned point is held at its edges, on a track begun after a reset
C13_Witness ==
    /\ HAS_FILTERPY
    /\ kt_op = "update"
    /\ kf_x.x[1] > FP
    /\ kf_y.x[1] < 0
    /\ kt_ret = <<FP, 0>>
    /\ kt_updates > Len(kt_history)

\* the last min(k, 5) of the k valid observations made since construction or
\* the last reset
RecentObservations ==
    LET k == Len(kt_history)
    IN  SubSeq(kt_history, k - IntMin(k, 5) + 1, k)

\* C14: under the moving-average strategy the window never holds more than
\* 5 observations, it is the last min(k, 5) of the k valid observations made
\* since construction or the last reset, oldest first (missing detections
\* are not in it), and each valid update returns their arithmetic mean on
\* each axis (to the resolution 1/FP of the model's numbers).
C14_MeanOfLastFive ==
    ~HAS_FILTERPY =>
        /\ Len(fallback_window) <= 5
        /\ fallback_window = RecentObservations
        /\ (kt_op = "update" /\ kt_arg # None) =>
              \A i \in 1..2 :
                  LET n == Len(RecentObservations)
                      total == SumAxis(RecentObservations, i)
                  IN  /\ kt_ret[i] * n <= total
                      /\ total < (kt_ret[i] + 1) * n

\* a seventh observation after the window filled: the two oldest, which
\* differ from the ones kept, have been evicted
C14_Witness ==
    /\ ~HAS_FILTERPY
    /\ kt_op = "update"
    /\ kt_arg # None
    /\ Len(kt_history) = 7
    /\ kt_history[1] # kt_history[6]
    /\ kt_history[2] # kt_history[7]
    /\ Len(fallback_window) = 5

\* a point of the unit square
InUnitSquare(p) == p[1] \in 0..FP /\ p[2] \in 0..FP

\* the last n valid observations since construction or reset all equal p
LastEqual(n, p) ==
    /\ Len(kt_history) >= n
    /\ \A i \in (Len(kt_history) - n + 1)..Len(kt_history) : kt_history[i] = p

\* C15: with the same observation (x0, y0) of the unit square given again and
\* again, a fresh or reset smoother returns (x0, y0) every time under either
\* strategy, and the moving average returns (x0, y0) from the 5th consecutive
\* identical observation on whatever came before (equality to the resolution
\* 1/FP of the model's numbers).
C15_ConstantInputConverges ==
    (kt_op = "update" /\ kt_arg # None /\ InUnitSquare(kt_arg)) =>
        /\ LastEqual(Len(kt_history), kt_arg) => kt_ret = kt_arg
        /\ (~HAS_FILTERPY /\ LastEqual(5, kt_arg)) => kt_ret = kt_arg

\* the 5th identical observation in a row after a different one, under the
\* moving average
C15_Witness ==
    /\ ~HAS_FILTERPY
    /\ kt_op = "update"
    /\ kt_arg # None
    /\ InUnitSquare(kt_arg)
    /\ Len(kt_history) = 6
    /\ kt_history[1] # kt_arg
    /\ LastEqual(5, kt_arg)
    /\ kt_ret = kt_arg

\* the sum over a sequence of points of the e-th power (e = 1 or 2) of the
\* distance on one axis from the sequence's first point
RECURSIVE SumDev(_, _, _, _)
SumDev(points, axis, e, k) ==
    IF k = 0 THEN 0
    ELSE LET d == points[k][axis] - points[1][axis]
         IN  SumDev(points, axis, e, k - 1) + (IF e = 1 THEN d ELSE d * d)

\* n * n times the variance on one axis of a sequence of n points
ScaledVariance(points, axis) ==
    LET n == Len(points)
        s1 == SumDev(points, axis, 1, n)
    IN  n * SumDev(points, axis, 2, n) - s1 * s1

\* the observations since construction are a, b, a, b, ... with a # b
Alternating ==
    /\ Len(kt_history) >= 2
    /\ kt_updates = Len(kt_history)
    /\ kt_history[1] # kt_history[2]
    /\ \A k \in 3..Len(kt_history) : kt_history[k] = kt_history[k - 2]

\* C16: a fresh smoother given observations that alternate between two
\* distinct values of the unit square returns a sequence whose variance is
\* strictly lower than that of the observations, on each axis on which the
\* two values differ.
C16_JitterReduced ==
    (kt_op = "update" /\ kt_arg # None /\ Alternating
        /\ InUnitSquare(kt_history[1]) /\ InUnitSquare(kt_history[2])) =>
        \A i \in 1..2 :
            kt_history[1][i] # kt_history[2][i] =>
                ScaledVariance(kt_outputs, i) < ScaledVariance(kt_history, i)

\* seven alternating observations smoothed by the Kalman filters
C16_Witness ==
    /\ HAS_FILTERPY
    /\ kt_op = "update"
    /\ kt_arg # None
    /\ Alternating
    /\ Len(kt_history) = 7
    /\ InUnitSquare(kt_history[1])
    /\ InUnitSquare(kt_history[2])
    /\ ScaledVariance(kt_outputs, 1) > 0

\* the axis filter of a freshly constructed tracker after the first k of the
\* given observations
RECURSIVE FreshFilter(_, _, _)
FreshFilter(observations, axis, k) ==
    LET z == observations[k][axis]
    IN  IF k = 1
        THEN KFCycle([NewKalmanFilter EXCEPT !.x = <<z, 0>>], z)
        ELSE KFCycle(FreshFilter(observations, axis, k - 1), z)

\* what a freshly constructed tracker of the same strategy returns for the
\* last of the given observations
FreshOutput(observations) ==
    LET n == Len(observations)
        window == SubSeq(observations, n - IntMin(n, WindowSize) + 1, n)
    IN  IF HAS_FILTERPY
        THEN <<ClampUnit(FreshFilter(observations, 1, n).x[1]),
               ClampUnit(FreshFilter(observations, 2, n).x[1])>>
        ELSE <<SumAxis(window, 1) \div Len(window),
               SumAxis(window, 2) \div Len(window)>>

\* C17: reset() discards position, velocity, covariance and history, so
\* under either strategy every output after it is the output of a freshly
\* constructed smoother given the same observations.
C17_ResetIsFresh ==
    (kt_op = "update" /\ kt_arg # None) => kt_ret = FreshOutput(kt_history)

\* what the public contract promises of the call just made, whichever
\* strategy is in use: None exactly for a missing detection, the observation
\* itself for the first one after construction or reset, and a point of the
\* unit square for every observation
ContractHolds ==
    /\ kt_ret = None <=> kt_arg = None
    /\ kt_arg # None =>
          /\ Len(kt_history) = 1 => kt_ret = kt_arg
          /\ InUnitSquare(kt_ret)

\* C18 as stated: for every sequence of update and reset calls, whatever the
\* observations, both strategies return None on the same calls, return the
\* raw observation on the first valid update after construction or reset,
\* and return only points within [0,1] on each axis.
C18_SameContractAnyInput ==
    kt_op = "update" => ContractHolds

\* C18: as long as the observations made since construction or the last reset
\* lie within [0,1] on each axis, both strategies return None exactly on the
\* calls with a missing detection, return the raw observation on the first
\* valid update after construction or reset, and return only points within
\* [0,1] on each axis.
C18_SameContract ==
    (kt_op = "update" /\ \A i \in 1..Len(kt_history) : InUnitSquare(kt_history[i]))
        => ContractHolds

\* the first observation after a reset that ended an earlier track, returned
\* as it is by the moving average
C18_Witness ==
    /\ ~HAS_FILTERPY
    /\ kt_op = "update"
    /\ kt_arg # None
    /\ InUnitSquare(kt_arg)
    /\ Len(kt_history) = 1
    /\ kt_updates > 1
    /\ kt_ret = kt_arg

\* ---------------------------------------------- claims on GestureRecognizer
\* the (tip, PIP) landmark pairs of the index, middle, ring and little finger
FingerPairs == {<<8, 6>>, <<12, 10>>, <<16, 14>>, <<20, 18>>}

\* the number of those fingers whose tip y is strictly less than its PIP y,
\* plus one if the thumb tip (4) is more than 0.04 from the thumb IP (3) in x
CountByPairs(landmarks) ==
    Cardinality({pair \in FingerPairs :
                    At(landmarks, pair[1]).y < At(landmarks, pair[2]).y})
    + (IF Abs(At(landmarks, 4).x - At(landmarks, 3).x) > 4 THEN 1 ELSE 0)

\* the last call classified a list of landmarks without an error
ClassifiedHand == g_ret # None /\ g_ret[1] # "ERROR"

\* C19: the extended-finger count of _classify_gesture is the number of
\* fingers among index, middle, ring and little finger whose tip y is strictly
\* less than its PIP y, plus one exactly when the thumb tip is strictly more
\* than 0.04 from the thumb IP in x; a tip level with its PIP and a thumb at
\* exactly 0.04 are not counted, and the count lies in 0..5.
C19_ExtendedCount ==
    ClassifiedHand =>
        /\ g_extended = CountByPairs(g_arg)
        /\ g_extended \in 0..5
        /\ ((\A pair \in FingerPairs :
                At(g_arg, pair[1]).y = At(g_arg, pair[2]).y)
            /\ Abs(At(g_arg, 4).x - At(g_arg, 3).x) = 4) => g_extended = 0

\* a frame whose hand has the index tip level with its PIP joint, the thumb
\* tip exactly 0.04 from its IP joint and the other three fingers raised
C19_Witness ==
    /\ g_op = "process_frame"
    /\ ClassifiedHand
    /\ Len(g_arg) = 21
    /\ At(g_arg, INDEX_TIP).y = At(g_arg, INDEX_PIP).y
    /\ Abs(At(g_arg, THUMB_TIP).x - At(g_arg, THUMB_IP).x) = ThumbThreshold
    /\ g_extended = 3

\* the last call classified a list of exactly 21 landmarks
WellFormedHand == g_arg # None /\ Len(g_arg) = 21 /\ ~Raises(g_arg)

\* C20: for a well-formed list of 21 landmarks the classification is
\* CLOSED_FIST with confidence 0.9 exactly when the extended count is 0 and
\* OPEN_PALM with confidence 0.9 exactly when it is 4 or 5, with or without
\* the thumb; process_frame reports that label and confidence.
C20_FistAndPalm ==
    WellFormedHand =>
        /\ g_ret = <<"CLOSED_FIST", 9>> <=> CountByPairs(g_arg) = 0
        /\ g_ret = <<"OPEN_PALM", 9>> <=> CountByPairs(g_arg) >= 4
        /\ g_ret[1] \in {"CLOSED_FIST", "OPEN_PALM"} => g_ret[2] = 9
        /\ g_op = "process_frame" =>
              (pf_ret.gesture = g_ret[1] /\ pf_ret.confidence = g_ret[2])

\* an open palm reported for a frame whose hand has four fingers raised and
\* the thumb tucked in
C20_Witness ==
    /\ g_op = "process_frame"
    /\ WellFormedHand
    /\ ~ThumbExtended(g_arg)
    /\ g_extended = 4
    /\ pf_ret.gesture = "OPEN_PALM"
    /\ pf_ret.confidence = 9

\* the index tip is above its PIP joint (landmarks 8 and 6)
IndexUp(landmarks) == At(landmarks, 8).y < At(landmarks, 6).y

\* the thumb tip (4) is more than 0.04 from the thumb IP (3) in x
ThumbOut(landmarks) == Abs(At(landmarks, 4).x - At(landmarks, 3).x) > 4

\* C21: for a well-formed list of 21 landmarks the classification is
\* POINTING with confidence 0.9 exactly when one finger is extended and it is
\* the index; one extended finger that is the thumb, the middle, the ring or
\* the little finger gives UNKNOWN with confidence 0.5.
C21_Pointing ==
    WellFormedHand =>
        /\ g_ret = <<"POINTING", 9>> <=>
              (CountByPairs(g_arg) = 1 /\ IndexUp(g_arg))
        /\ g_ret[1] = "POINTING" => g_ret[2] = 9
        /\ (CountByPairs(g_arg) = 1 /\ ~IndexUp(g_arg)) => g_ret = <<"UNKNOWN", 5>>

\* a frame whose hand has the thumb alone extended, reported as UNKNOWN
C21_Witness ==
    /\ g_op = "process_frame"
    /\ WellFormedHand
    /\ CountByPairs(g_arg) = 1
    /\ ThumbOut(g_arg)
    /\ pf_ret.gesture = "UNKNOWN"
    /\ pf_ret.confidence = 5

\* exactly the thumb and the index are extended
ThumbAndIndexOnly(landmarks) ==
    CountByPairs(landmarks) = 2 /\ ThumbOut(landmarks) /\ IndexUp(landmarks)

\* the square of the distance between thumb tip (4) and index tip (8)
TipDistanceSquared(landmarks) ==
    LET dx == At(landmarks, 4).x - At(landmarks, 8).x
        dy == At(landmarks, 4).y - At(landmarks, 8).y
    IN  dx * dx + dy * dy

\* C22: for a well-formed list of 21 landmarks with exactly the thumb and
\* the index extended, the classification is PINCH with confidence 0.9 when
\* the distance between thumb tip and index tip is strictly less than 0.05
\* and PEACE_SIGN with confidence 0.8 otherwise, a distance of exactly 0.05
\* included; the two labels are returned in no other case.
C22_PinchOrPeace ==
    WellFormedHand =>
        /\ g_ret = <<"PINCH", 9>> <=>
              (ThumbAndIndexOnly(g_arg) /\ TipDistanceSquared(g_arg) < 5 * 5)
        /\ g_ret = <<"PEACE_SIGN", 8>> <=>
              (ThumbAndIndexOnly(g_arg) /\ TipDistanceSquared(g_arg) >= 5 * 5)
        /\ g_ret[1] = "PINCH" => g_ret[2] = 9
        /\ g_ret[1] = "PEACE_SIGN" => g_ret[2] = 8

\* thumb and index extended with the tips exactly 0.05 apart, on a diagonal
C22_Witness ==
    /\ WellFormedHand
    /\ ThumbAndIndexOnly(g_arg)
    /\ At(g_arg, THUMB_TIP).x # At(g_arg, INDEX_TIP).x
    /\ TipDistanceSquared(g_arg) = 25
    /\ g_ret = <<"PEACE_SIGN", 8>>

\* none of the rules for CLOSED_FIST, OPEN_PALM, POINTING, PINCH and
\* PEACE_SIGN applies: one extended finger that is not the index, two that
\* are not the thumb and the index, or three
NoRuleApplies(landmarks) ==
    \/ CountByPairs(landmarks) = 1 /\ ~IndexUp(landmarks)
    \/ CountByPairs(landmarks) = 2 /\ ~(ThumbOut(landmarks) /\ IndexUp(landmarks))
    \/ CountByPairs(landmarks) = 3

\* C23: a well-formed list of 21 landmarks is classified UNKNOWN with
\* confidence 0.5 exactly when none of the other five rules covers it: two
\* extended fingers other than thumb and index, three extended fingers, or
\* one extended finger that is not the index.
C23_Unknown ==
    WellFormedHand =>
        /\ NoRuleApplies(g_arg) <=> g_ret = <<"UNKNOWN", 5>>
        /\ g_ret[1] = "UNKNOWN" => g_ret[2] = 5

\* the middle and the ring finger extended and nothing else
C23_Witness ==
    /\ WellFormedHand
    /\ CountByPairs(g_arg) = 2
    /\ At(g_arg, 12).y < At(g_arg, 10).y
    /\ At(g_arg, 16).y < At(g_arg, 14).y
    /\ g_ret = <<"UNKNOWN", 5>>

\* C24: _classify_gesture raises nothing: for a list of landmarks whose
\* size is not 21, shorter or longer, or that is malformed in another way, it
\* returns the error label with confidence 0.0, and process_frame still
\* returns its dictionary for the frame.
C24_ErrorSentinel ==
    (g_arg # None /\ (Len(g_arg) # 21 \/ Raises(g_arg))) =>
        /\ g_ret = <<"ERROR", 0>>
        /\ g_op = "process_frame" =>
              /\ pf_ret.gesture = "ERROR"
              /\ pf_ret.confidence = 0
              /\ pf_ret.landmarks = g_arg

\* the six labels with their confidences
GestureLabels ==
    {<<"CLOSED_FIST", 9>>, <<"OPEN_PALM", 9>>, <<"POINTING", 9>>, <<"PINCH", 9>>,
     <<"PEACE_SIGN", 8>>, <<"UNKNOWN", 5>>}

\* C26: for a well-formed list of 21 landmarks the result is one of
\* CLOSED_FIST, OPEN_PALM, POINTING, PINCH, PEACE_SIGN and UNKNOWN with a
\* confidence in [0,1] that is 0.8 for PEACE_SIGN, 0.5 for UNKNOWN and 0.9
\* for the other four, and process_frame reports no other label or confidence.
C26_ClosedEnumeration ==
    WellFormedHand =>
        /\ g_ret \in GestureLabels
        /\ g_ret[2] \in 0..10
        /\ g_op = "process_frame" => <<pf_ret.gesture, pf_ret.confidence>> \in GestureLabels

\* a frame reported as a peace sign with confidence 0.8
C26_Witness ==
    /\ g_op = "process_frame"
    /\ WellFormedHand
    /\ pf_ret.gesture = "PEACE_SIGN"
    /\ pf_ret.confidence = 8

\* C25: classification is a function of the landmarks alone: a list equal
\* to the first one classified gets the same (label, confidence) whatever was
\* called in between; a call of _classify_gesture leaves current_gesture,
\* confidence and the timestamp as they were, process_frame leaves
\* current_gesture and confidence as they were, and the landmarks reported
\* are the landmarks given.
C25_PureClassification ==
    /\ [](g_memo # None /\ g_arg = g_memo.landmarks => g_ret = g_memo.result)
    /\ [][/\ g_op' = "_classify_gesture" => UNCHANGED recognizerVars
          /\ UNCHANGED <<current_gesture, confidence>>
          /\ (g_op' = "process_frame" /\ g_ret' # None) =>
                pf_ret'.landmarks = g_arg']_vars

\* the first hand classified again on its own after two frames with other
\* hands have been processed
C25_Witness ==
    /\ g_op = "_classify_gesture"
    /\ g_memo # None
    /\ g_memo.others
    /\ g_arg = g_memo.landmarks
    /\ g_ret = g_memo.result
    /\ timestamp_ms = 2 * FrameStep

\* ------------------------------------------- claims on the frame timestamps
\* the timestamps are 33, 66, ... in this order, and the last is the current one
CountsFrames(detects, timestamp) ==
    /\ \A i \in 1..Len(detects) : detects[i] = 33 * i
    /\ \A i \in 1..Len(detects) : \A j \in 1..Len(detects) :
           i < j => detects[i] < detects[j]
    /\ timestamp = 33 * Len(detects)

\* C29: on an EyeTracker, and on a GestureRecognizer, the timestamps given
\* to detect_for_video are strictly increasing, each 33 more than the one
\* before, and the object's timestamp is the last one given, so a call that
\* does not reach the detector leaves it as it was; a call with no frame or
\* on an object without a landmarker returns the all-None dictionary.
C29_Timestamps ==
    /\ CountsFrames(et_detects, et_timestamp_ms)
    /\ CountsFrames(g_detects, timestamp_ms)
    /\ (et_op = "process_frame" /\ (et_frame = None \/ ~et_landmarker)) =>
          et_ret = EmptyTrackerData
    /\ (g_op = "process_frame" /\ (g_frame = None \/ ~landmarker)) =>
          /\ pf_ret.gesture = None
          /\ pf_ret.landmarks = None
          /\ pf_ret.confidence = 0
          /\ pf_ret.handedness = None

\* two frames have gone through each detector, the last call on the
\* EyeTracker had no frame, and the last on the GestureRecognizer had one
\* that could not be converted
C29_Witness ==
    /\ et_detects = <<33, 66>>
    /\ g_detects = <<33, 66>>
    /\ et_op = "process_frame"
    /\ et_frame = None
    /\ g_op = "process_frame"
    /\ g_frame = NotAnImage

\* ---------------------------------------------------- claims on the pipeline
\* C27: in a frame of the pipeline update(map_to_screen(obs)), when obs is
\* absent or the calibration is not fitted the output is None and neither the
\* calibration nor the smoother changes; when the calibration is fitted and
\* obs is present the output is a point.
C27_AbsentPassesThrough ==
    [][(op' = "map_to_screen" /\ kt_op' = "update") =>
          IF arg'[1] = None \/ ~is_calibrated
          THEN /\ ret' = None
               /\ kt_arg' = None
               /\ kt_ret' = None
               /\ UNCHANGED <<calVars, trackerVars>>
          ELSE /\ ret' # None
               /\ kt_ret' # None
               /\ Len(kt_ret') = 2
               /\ UNCHANGED calVars]_vars

\* a fitted pipeline that has put out a point gets a frame with no
\* observation
C27_Witness ==
    /\ op = "map_to_screen"
    /\ kt_op = "update"
    /\ is_calibrated
    /\ arg = <<None>>
    /\ kt_ret = None
    /\ Len(kt_outputs) > 0
    /\ initialized

\* ------------------------------------------------------ claims on the Camera
\* the threads inside a with self.lock statement
InCritical ==
    {t \in 1..Len(capture_threads) : capture_threads[t].pc = "store"}
        \cup (IF cam_pc = "get_frame" THEN {0} ELSE {})

\* what get_frame is to return when the image last stored is n (0: none yet)
Snapshot(n) == IF n = 0 THEN <<FALSE, None>> ELSE <<TRUE, Copy(Frame(n))>>

\* C28: get_frame and a capture thread's assignment to current_frame are never
\* inside the lock together; get_frame returns (False, None) as long as no
\* frame has been stored and afterwards (True, copy) where copy is an array of
\* the caller's own with the image stored last; what it returned stays as it
\* is when frames are stored later.
C28_LockedSnapshot ==
    /\ [](/\ Cardinality(InCritical) <= 1
          /\ (lock = "free") <=> (InCritical = {})
          /\ (lock = "client") <=> (0 \in InCritical)
          /\ (current_frame = None) <=> (last_stored = 0)
          /\ last_stored # 0 => current_frame = Frame(last_stored))
    /\ [][/\ (cam_pc = "get_frame" /\ cam_pc' = "idle") =>
                /\ cam_ret' = Snapshot(last_stored)
                /\ cam_ret'[1] => cam_ret'[2] # current_frame'
          /\ (cam_op = "get_frame" /\ cam_pc = "idle" /\ cam_pc' = "idle"
                 /\ cam_op' = "get_frame") =>
                cam_ret' = cam_ret]_vars

\* get_frame returned a copy of the first image and the second has been
\* stored since
C28_Witness ==
    /\ cam_op = "get_frame"
    /\ cam_pc = "idle"
    /\ cam_ret = <<TRUE, Copy(Frame(1))>>
    /\ current_frame = Frame(2)
    /\ last_stored = 2

\* C30: at most one capture thread is in _capture_loop at any time, and a
\* thread started before a stop() that has returned is not reading the device
\* nor storing a frame, also after a later start().
C30_OneCaptureThread ==
    /\ Cardinality(Alive) <= 1
    /\ \A t \in 1..Len(capture_threads) :
          capture_threads[t].stopped =>
             capture_threads[t].pc \in {"test", "done"}

====
